---- MODULE Spec2Model ----
(***************************************************************************)
(* Model of the TR-069 wildcard path expander (package expander, v2):      *)
(* the Expander engine of expander.go and the pathTree it is built on.     *)
(*                                                                         *)
(* Strings.  A Go string is modelled by the sequence of its dot-separated  *)
(* segments, that is by strings.Split(s, "."): "A.B." is <<"A","B","">>,   *)
(* the empty string is <<"">>.  The correspondence is one to one, so       *)
(* appending "." appends an empty segment, and a string ends with "." iff  *)
(* it has at least two segments and the last one is empty.  Segments are   *)
(* taken from the finite alphabet Segs.                                    *)
(***************************************************************************)
EXTENDS Integers, Sequences, FiniteSets, TLC

(***************************************************************************)
(* Bounds of the model.                                                    *)
(***************************************************************************)
MaxIndex == 2   \* instance indices offered by the device are 1..MaxIndex

(***************************************************************************)
(* Go strings as segment sequences.                                        *)
(***************************************************************************)
EmptyStr == <<"">>

Last(s) == s[Len(s)]

\* s + "."
WithDot(s) == s \o <<"">>

\* if cur != "" { cur += "." }; cur += seg      (seg holds no dot)
Cat(cur, seg) == IF cur = EmptyStr THEN <<seg>> ELSE cur \o <<seg>>

\* strings.TrimSuffix(s, ".")
TrimSuffixDot(s) ==
    IF Len(s) >= 2 /\ Last(s) = "" THEN SubSeq(s, 1, Len(s) - 1) ELSE s

\* strings.HasPrefix(s, p + ".")
HasPrefixDot(s, p) == Len(s) > Len(p) /\ SubSeq(s, 1, Len(p)) = p

(***************************************************************************)
(* strconv.Itoa and strconv.Atoi on the segments of the alphabet.  Atoi    *)
(* accepts a sign and leading zeros, so it is not the inverse of Itoa.     *)
(***************************************************************************)
Itoa(i) ==
    CASE i = 0 -> "0"
      [] i = 1 -> "1"
      [] i = 2 -> "2"
      [] i = 3 -> "3"
      [] i = 4 -> "4"
      [] i = -1 -> "-1"
      [] i = -2 -> "-2"

AtoiTable ==
    ("0" :> 0) @@ ("1" :> 1) @@ ("2" :> 2) @@ ("3" :> 3) @@ ("4" :> 4) @@
    ("-1" :> -1) @@ ("-2" :> -2) @@ ("+1" :> 1) @@ ("01" :> 1) @@ ("02" :> 2)

\* err == nil
AtoiOk(seg) == seg \in DOMAIN AtoiTable

Atoi(seg) == AtoiTable[seg]

(***************************************************************************)
(* Byte order of strings (sort.Strings compares byte by byte).  Each       *)
(* segment of the alphabet is given by its bytes; a string is its segments *)
(* joined by '.' (46).                                                     *)
(***************************************************************************)
SegBytes ==
    ("" :> <<>>) @@ ("*" :> <<42>>) @@
    ("+1" :> <<43, 49>>) @@ ("-1" :> <<45, 49>>) @@ ("-2" :> <<45, 50>>) @@
    ("0" :> <<48>>) @@ ("01" :> <<48, 49>>) @@ ("02" :> <<48, 50>>) @@
    ("1" :> <<49>>) @@ ("2" :> <<50>>) @@ ("3" :> <<51>>) @@ ("4" :> <<52>>) @@
    ("A" :> <<65>>) @@ ("B" :> <<66>>) @@ ("C" :> <<67>>) @@ ("D" :> <<68>>) @@
    ("E" :> <<69>>) @@ ("x" :> <<120>>)

Segs == DOMAIN SegBytes

RECURSIVE StrBytes(_)
StrBytes(s) ==
    IF Len(s) = 1 THEN SegBytes[s[1]]
    ELSE SegBytes[s[1]] \o <<46>> \o StrBytes(Tail(s))

RECURSIVE BytesLess(_, _)
BytesLess(a, b) ==
    IF b = <<>> THEN FALSE
    ELSE IF a = <<>> THEN TRUE
    ELSE IF Head(a) # Head(b) THEN Head(a) < Head(b)
    ELSE BytesLess(Tail(a), Tail(b))

\* a < b as Go strings
StrLess(a, b) == BytesLess(StrBytes(a), StrBytes(b))

\* sort.Strings of a list without duplicates: the ascending list of its elements
\* (the i-th element is the one with i - 1 elements below it)
SortStrings(S) ==
    [i \in 1..Cardinality(S) |->
        CHOOSE x \in S : Cardinality({y \in S : StrLess(y, x)}) = i - 1]

\* sort.Ints of a list without duplicates
RECURSIVE SortInts(_)
SortInts(S) ==
    IF S = {} THEN <<>>
    ELSE LET m == CHOOSE x \in S : \A y \in S : x <= y
         IN  <<m>> \o SortInts(S \ {m})

Range(s) == {s[i] : i \in 1..Len(s)}

(***************************************************************************)
(* pathTree.  A node is named by the segments on the way from the root to  *)
(* it (the root is <<>>), so the children map of a node is the set of      *)
(* nodes one segment longer.  node.segment is the last segment of the      *)
(* name, node.isWildcard is set once, at creation, to segment == "*".      *)
(* The tree is the record [nodes, leaf]: the nodes created so far and the  *)
(* nodes whose isLeaf is set.                                              *)
(***************************************************************************)
Root == <<>>

EmptyTree == [nodes |-> {Root}, leaf |-> {}]

segment(n) == IF n = Root THEN "" ELSE Last(n)

isWildcard(n) == n # Root /\ Last(n) = "*"

children(t, n) ==
    {m \in t.nodes : Len(m) = Len(n) + 1 /\ SubSeq(m, 1, Len(n)) = n}

Prefixes(segments) == {SubSeq(segments, 1, i) : i \in 1..Len(segments)}

\* addPath that creates the nodes and forgets isLeaf
addPath_NoLeaf(t, path) ==
    [nodes |-> t.nodes \cup Prefixes(path), leaf |-> t.leaf]

\* addPath that starts the tree anew with each pattern
addPath_Anew(t, path) ==
    [nodes |-> {Root} \cup Prefixes(path), leaf |-> {path}]

\* pathTree.addPath: one node per segment, the last one marked as a leaf
addPath(t, path) ==
    [nodes |-> t.nodes \cup Prefixes(path), leaf |-> t.leaf \cup {path}]

(***************************************************************************)
(* Go visits the children map in an order that changes from one range      *)
(* loop to the next.  Where the order can be seen in the result, the       *)
(* operator yields the set of the results of all orders.                   *)
(*                                                                         *)
(* ConcatOrders(S, f): the lists got by visiting the elements of S in some *)
(* order and concatenating one list of f[c] for each element c.            *)
(***************************************************************************)
RECURSIVE ConcatOrders(_, _)
ConcatOrders(S, f) ==
    IF S = {} THEN {<<>>}
    ELSE UNION {{a \o b : a \in f[c], b \in ConcatOrders(S \ {c}, f)} : c \in S}

\* the discovery path of a wildcard whose own path is cur: all segments but
\* the last, joined by dots, with a trailing dot unless that is empty
DiscoveryPathOf(cur) ==
    LET pre == IF Len(cur) = 1 THEN EmptyStr ELSE SubSeq(cur, 1, Len(cur) - 1)
    IN  IF pre = EmptyStr THEN pre ELSE WithDot(pre)

\* pathTree.collectDiscoveryPaths, before the "only add if not already
\* present" filter: the discovery paths in the order the walk meets them
RECURSIVE collectDiscoveryPaths(_, _, _)
collectDiscoveryPaths(t, node, currentPath) ==
    LET cur == IF segment(node) # "" THEN Cat(currentPath, segment(node))
               ELSE currentPath
    IN  IF isWildcard(node) THEN {<<DiscoveryPathOf(cur)>>}
        ELSE ConcatOrders(children(t, node),
                 [c \in children(t, node) |-> collectDiscoveryPaths(t, c, cur)])

\* keeps the first occurrence of each element
RECURSIVE Dedup(_)
Dedup(s) ==
    IF s = <<>> THEN <<>>
    ELSE LET front == Dedup(SubSeq(s, 1, Len(s) - 1))
         IN  IF Last(s) \in Range(front) THEN front ELSE Append(front, Last(s))

\* pathTree.getDiscoveryPaths: the lists it can return
getDiscoveryPaths(t) == {Dedup(s) : s \in collectDiscoveryPaths(t, Root, EmptyStr)}

\* pathTree.findNextWildcardFrom: the strings it can return
RECURSIVE findNextWildcardFrom(_, _, _)
findNextWildcardFrom(t, node, basePath) ==
    LET concrete == {c \in children(t, node) : segment(c) # "*"}
        found(c) ==
            LET nextPath == basePath \o <<segment(c)>>
            IN  IF Append(c, "*") \in t.nodes THEN {WithDot(nextPath)}
                ELSE IF c \notin t.leaf
                     THEN findNextWildcardFrom(t, c, nextPath) \ {EmptyStr}
                     ELSE {}
        results == UNION {found(c) : c \in concrete}
    IN  IF results # {} THEN results
        ELSE IF Append(node, "*") \in t.nodes THEN {WithDot(basePath)}
        ELSE {EmptyStr}

\* the walk of findNextWildcard down the tree along the segments of the
\* expanded path: the node reached, or NoNode
NoNode == <<"?">>

RECURSIVE Descend(_, _, _)
Descend(t, current, segments) ==
    IF segments = <<>> THEN current
    ELSE LET seg == Head(segments)
         IN  IF Append(current, seg) \in t.nodes
             THEN Descend(t, Append(current, seg), Tail(segments))
             ELSE IF AtoiOk(seg) /\ Append(current, "*") \in t.nodes
                  THEN Descend(t, Append(current, "*"), Tail(segments))
                  ELSE NoNode

\* pathTree.findNextWildcard: the strings it can return
findNextWildcard(t, expandedPath) ==
    LET current == Descend(t, Root, expandedPath)
    IN  IF current = NoNode THEN {EmptyStr}
        ELSE findNextWildcardFrom(t, current, expandedPath)

\* pathTree.getNextLevelPaths: the lists it can return
RECURSIVE NextLevelFrom(_, _, _)
NextLevelFrom(t, pathWithoutDot, indices) ==
    IF indices = <<>> THEN {<<>>}
    ELSE LET expandedPath == pathWithoutDot \o <<Itoa(Head(indices))>>
         IN  {IF w = EmptyStr THEN rest ELSE <<w>> \o rest :
                 w \in findNextWildcard(t, expandedPath),
                 rest \in NextLevelFrom(t, pathWithoutDot, Tail(indices))}

\* getNextLevelPaths that walks the indices from the highest down
getNextLevelPaths_HighestFirst(t, discoveryPath, indices) ==
    NextLevelFrom(t, TrimSuffixDot(discoveryPath),
                  [i \in 1..Len(indices) |-> indices[Len(indices) + 1 - i]])

getNextLevelPaths(t, discoveryPath, indices) ==
    NextLevelFrom(t, TrimSuffixDot(discoveryPath), indices)

(***************************************************************************)
(* pathTree.expandPaths.  The order of the result depends on the order of  *)
(* the children, but Expander.generateExpandedPaths sorts what it keeps,   *)
(* so the result is modelled as a set.  The cache is a function from       *)
(* discovery paths to ascending lists of indices.                          *)
(***************************************************************************)
RECURSIVE expandPaths(_, _, _, _)
expandPaths(t, node, currentPath, cache) ==
    IF node = Root
    THEN UNION {expandPaths(t, c, EmptyStr, cache) : c \in children(t, node)}
    ELSE IF isWildcard(node)
    THEN LET discoveryPath == IF currentPath # EmptyStr THEN WithDot(currentPath)
                              ELSE currentPath
         IN  IF discoveryPath \notin DOMAIN cache THEN {}
             ELSE UNION {expandPaths(t, c, Cat(currentPath, Itoa(idx)), cache) :
                            idx \in Range(cache[discoveryPath]),
                            c \in children(t, node)}
    ELSE LET cur == Cat(currentPath, segment(node))
         IN  IF node \in t.leaf THEN {cur}
             ELSE UNION {expandPaths(t, c, cur, cache) : c \in children(t, node)}

\* pathTree.generateExpandedPaths
treeExpandedPaths(t, cache) == expandPaths(t, Root, EmptyStr, cache)

\* extractIndices that does not look at what an identifier begins with
extractIndices_AnyPrefix(discoveryPath, parameterNames) ==
    LET pathWithoutDot == TrimSuffixDot(discoveryPath)
        prefixLen == Len(pathWithoutDot) + 1
        parsed == {Atoi(param[prefixLen]) :
                      param \in {q \in Range(parameterNames) :
                                    /\ Len(q) >= prefixLen
                                    /\ AtoiOk(q[prefixLen])}}
    IN  SortInts(parsed)

\* extractIndices
extractIndices(discoveryPath, parameterNames) ==
    LET pathWithoutDot == TrimSuffixDot(discoveryPath)
        prefixLen == Len(pathWithoutDot) + 1
        parsed == {Atoi(param[prefixLen]) :
                      param \in {q \in Range(parameterNames) :
                                    /\ HasPrefixDot(q, pathWithoutDot)
                                    /\ AtoiOk(q[prefixLen])}}
    IN  SortInts(parsed)

(***************************************************************************)
(* The Expander.  Its fields are the variables below; the operators on     *)
(* the record of the fields (Engine) follow the methods of expander.go and *)
(* yield the set of the outcomes the map orders allow.                     *)
(***************************************************************************)
VARIABLES
    paths,                  \* Expander.paths, the path tree
    cache,                  \* discovery path -> ascending list of indices
    pendingDiscoveries,     \* queue of discovery paths
    processedDiscoveries,   \* the discovery paths mapped to true
    expandedPaths,          \* the sorted list of expanded paths
    expandedSet,            \* the paths mapped to true in expandedSet
    isComplete,
    lastDiscoveryPath,
    ret,                    \* what the last call returned
    prev,                   \* what the call before it returned
    hist,                   \* the calls since the last Reset, while one round
    outstanding,            \* the prefix Next returned, until Register is called
    orderly,                \* no call out of turn and no rejected Add since Reset
    unanswered,             \* the prefix Next returned, until a Register is accepted
    inTurn,                 \* no Next since Reset came before the answer to the last
    asked,                  \* the prefixes Next has returned since Reset
    returned,               \* the prefixes Next has returned, in the order of first return
    added,                  \* the patterns of the successful Adds
    offered,                \* the patterns of all Adds, failed ones too
    env,                    \* the inputs the caller draws from
    wildcardExpander,       \* the single-pattern expander, a wildcardExpander struct
    wret,                   \* what the last call on it returned
    unregistered,           \* the discovery paths it returned, until registered
    reported,               \* IsComplete has returned true since New
    repeats                 \* the registrations the caller has made a second time

engineVars == <<paths, cache, pendingDiscoveries, processedDiscoveries,
                expandedPaths, expandedSet, isComplete, lastDiscoveryPath>>

vars == <<paths, cache, pendingDiscoveries, processedDiscoveries, expandedPaths,
          expandedSet, isComplete, lastDiscoveryPath, ret, prev, hist, orderly,
          outstanding, unanswered, inTurn, asked, returned, added, offered, env,
          wildcardExpander, wret, unregistered, reported, repeats>>

\* the caller of the tree engine
callerVars == <<ret, prev, hist, orderly, outstanding, unanswered, inTurn, asked,
                returned, added, offered, env>>

\* the single-pattern expander and its caller
wxVars == <<wildcardExpander, wret, unregistered, reported, repeats>>

Engine ==
    [paths |-> paths, cache |-> cache, pending |-> pendingDiscoveries,
     processed |-> processedDiscoveries, expandedPaths |-> expandedPaths,
     expandedSet |-> expandedSet, isComplete |-> isComplete,
     last |-> lastDiscoveryPath]

NoCache == [d \in {} |-> <<>>]

\* the state Reset leaves, which is also the state Get hands out
FreshEngine ==
    [paths |-> EmptyTree, cache |-> NoCache, pending |-> <<>>, processed |-> {},
     expandedPaths |-> <<>>, expandedSet |-> {}, isComplete |-> FALSE,
     last |-> EmptyStr]

\* the loop without the search of the pending list
RECURSIVE Enqueue_NoPendingCheck(_, _)
Enqueue_NoPendingCheck(e, list) ==
    IF list = <<>> THEN e
    ELSE LET x == Head(list)
             e1 == IF x \notin e.processed
                   THEN [e EXCEPT !.pending = Append(@, x)]
                   ELSE e
         IN  Enqueue_NoPendingCheck(e1, Tail(list))

\* the loop shared by generateDiscoveryPaths and processNextLevel: append
\* each path that is neither processed nor pending
RECURSIVE Enqueue(_, _)
Enqueue(e, list) ==
    IF list = <<>> THEN e
    ELSE LET x == Head(list)
             e1 == IF x \notin e.processed /\ x \notin Range(e.pending)
                   THEN [e EXCEPT !.pending = Append(@, x)]
                   ELSE e
         IN  Enqueue(e1, Tail(list))

\* Expander.generateDiscoveryPaths
generateDiscoveryPaths(e) ==
    {Enqueue(e, discoveries) : discoveries \in getDiscoveryPaths(e.paths)}

\* processNextLevel that goes down below the first instance, whatever
\* indices were answered
processNextLevel_FirstInstance(e, discoveryPath, indices) ==
    {Enqueue(e, nextPaths) :
        nextPaths \in getNextLevelPaths(e.paths, discoveryPath, <<1>>)}

\* Expander.processNextLevel
processNextLevel(e, discoveryPath, indices) ==
    {Enqueue(e, nextPaths) :
        nextPaths \in getNextLevelPaths(e.paths, discoveryPath, indices)}

\* generateExpandedPaths that keeps a result it has already computed
generateExpandedPaths_Once(e) ==
    IF e.expandedPaths # <<>> THEN e
    ELSE LET fresh == treeExpandedPaths(e.paths, e.cache)
         IN  [e EXCEPT !.expandedPaths = SortStrings(fresh), !.expandedSet = fresh]

\* Expander.generateExpandedPaths
generateExpandedPaths(e) ==
    LET fresh == treeExpandedPaths(e.paths, e.cache) \ e.expandedSet
    IN  [e EXCEPT !.expandedPaths = SortStrings(Range(@) \cup fresh),
                  !.expandedSet = @ \cup fresh]

\* Expander.Add: the outcomes [e, err]
RECURSIVE addPaths(_, _)
addPaths(e, list) ==
    IF list = <<>> THEN [e |-> e, err |-> "nil"]
    ELSE IF Head(list) = EmptyStr THEN [e |-> e, err |-> "ErrInvalidPath"]
    ELSE addPaths([e EXCEPT !.paths = addPath(@, Head(list))], Tail(list))

\* Add that leaves isComplete as it finds it
EngineAdd_StaysComplete(e, list) ==
    IF Len(list) = 0 THEN {[e |-> e, err |-> "nil"]}
    ELSE LET r == addPaths(e, list)
         IN  IF r.err # "nil" THEN {r}
             ELSE {[e |-> e2, err |-> "nil"] : e2 \in generateDiscoveryPaths(r.e)}

EngineAdd(e, list) ==
    IF Len(list) = 0 THEN {[e |-> e, err |-> "nil"]}
    ELSE LET r == addPaths([e EXCEPT !.isComplete = FALSE], list)
         IN  IF r.err # "nil" THEN {r}
             ELSE {[e |-> e2, err |-> "nil"] : e2 \in generateDiscoveryPaths(r.e)}

\* Expander.Next: the outcomes [e, path, hasMore]
RECURSIVE EngineNext(_)
EngineNext(e) ==
    IF Len(e.pending) > 0
    THEN LET path == Head(e.pending)
             e1 == [e EXCEPT !.pending = Tail(@)]
         IN  IF path \in e1.processed THEN EngineNext(e1)
             ELSE IF path \in DOMAIN e1.cache
             THEN UNION {EngineNext(e2) :
                     e2 \in processNextLevel(
                               [e1 EXCEPT !.processed = @ \cup {path}],
                               path, e1.cache[path])}
             ELSE {[e |-> [e1 EXCEPT !.last = path], path |-> path,
                    hasMore |-> TRUE]}
    ELSE {[e |-> generateExpandedPaths([e EXCEPT !.isComplete = TRUE]),
           path |-> EmptyStr, hasMore |-> FALSE]}

\* Register that leaves the prefix it has answered outstanding
EngineRegister_KeepsOutstanding(e, results) ==
    IF e.isComplete THEN {[e |-> e, err |-> "ErrAlreadyComplete"]}
    ELSE IF e.last = EmptyStr THEN {[e |-> e, err |-> "no discovery path available"]}
    ELSE LET indices == extractIndices(e.last, results)
             e1 == [e EXCEPT !.cache = (e.last :> indices) @@ @,
                             !.processed = @ \cup {e.last}]
         IN  {[e |-> e2, err |-> "nil"] :
                 e2 \in processNextLevel(e1, e.last, indices)}

\* Register that takes an answer without indices as no answer yet
EngineRegister_EmptyIsRetry(e, results) ==
    IF e.isComplete THEN {[e |-> e, err |-> "ErrAlreadyComplete"]}
    ELSE IF e.last = EmptyStr THEN {[e |-> e, err |-> "no discovery path available"]}
    ELSE LET indices == extractIndices(e.last, results)
             e1 == [e EXCEPT !.cache = (e.last :> indices) @@ @,
                             !.processed = @ \cup {e.last}]
         IN  IF indices = <<>>
             THEN {[e |-> [e EXCEPT !.pending = <<e.last>> \o @, !.last = EmptyStr],
                    err |-> "nil"]}
             ELSE {[e |-> [e2 EXCEPT !.last = EmptyStr], err |-> "nil"] :
                      e2 \in processNextLevel(e1, e.last, indices)}

\* Expander.Register: the outcomes [e, err]
EngineRegister(e, results) ==
    IF e.isComplete THEN {[e |-> e, err |-> "ErrAlreadyComplete"]}
    ELSE IF e.last = EmptyStr THEN {[e |-> e, err |-> "no discovery path available"]}
    ELSE LET indices == extractIndices(e.last, results)
             e1 == [e EXCEPT !.cache = (e.last :> indices) @@ @,
                             !.processed = @ \cup {e.last}]
         IN  {[e |-> [e2 EXCEPT !.last = EmptyStr], err |-> "nil"] :
                 e2 \in processNextLevel(e1, e.last, indices)}

\* Expander.Collect: the outcomes [e, paths, err]
\* Collect that hands its list over and keeps nothing
EngineCollect_Drains(e) ==
    LET tried == IF ~e.isComplete THEN EngineNext(e)
                 ELSE {[e |-> e, path |-> EmptyStr, hasMore |-> FALSE]}
    IN  {IF n.hasMore
         THEN [e |-> n.e, paths |-> <<>>, err |-> "expansion not complete"]
         ELSE [e |-> [n.e EXCEPT !.expandedPaths = <<>>],
               paths |-> n.e.expandedPaths, err |-> "nil"] : n \in tried}

EngineCollect(e) ==
    LET tried == IF ~e.isComplete THEN EngineNext(e)
                 ELSE {[e |-> e, path |-> EmptyStr, hasMore |-> FALSE]}
    IN  {IF n.hasMore
         THEN [e |-> n.e, paths |-> <<>>, err |-> "expansion not complete"]
         ELSE [e |-> n.e, paths |-> n.e.expandedPaths, err |-> "nil"] :
            n \in tried}

\* Reset that keeps what the device has answered
EngineReset_KeepsCache(e) ==
    [FreshEngine EXCEPT !.cache = e.cache, !.processed = e.processed]

\* Expander.Reset
EngineReset(e) == FreshEngine

(***************************************************************************)
(* The single-pattern expander (wildcard_expander.go).  Its state is one   *)
(* wildcardExpander struct; the maps expectedFinalPaths and                *)
(* registeredFinalPaths only ever hold true and are the sets of their keys.*)
(* Wildcard levels are the 0-based positions of the code, so segment i of  *)
(* the code is pathSegments[i + 1] here.                                   *)
(***************************************************************************)
\* parseWildcardPath
parseWildcardPath(path) ==
    [segments |-> path,
     wildcardLevels |-> SortInts({i - 1 : i \in {j \in 1..Len(path) : path[j] = "*"}})]

\* buildDiscoveryPath: the segments before the wildcard, joined, and "."
buildDiscoveryPath(segments, wildcardLevel) ==
    IF wildcardLevel = 0 THEN <<"", "">>
    ELSE SubSeq(segments, 1, wildcardLevel) \o <<"">>

\* the struct the pool creates
PooledExpander ==
    [originalPath |-> EmptyStr, pathSegments |-> <<>>, wildcardLevels |-> <<>>,
     currentLevel |-> 0, discoveredPaths |-> NoCache, pendingPaths |-> <<>>,
     completedPaths |-> <<>>, isComplete |-> FALSE,
     expectedFinalPaths |-> {}, registeredFinalPaths |-> {}]

\* wildcardExpander.reset
reset(e, wildcardPath) ==
    LET p == parseWildcardPath(wildcardPath)
        none == p.wildcardLevels = <<>>
    IN  [originalPath |-> wildcardPath,
         pathSegments |-> p.segments,
         wildcardLevels |-> p.wildcardLevels,
         currentLevel |-> 0,
         discoveredPaths |-> NoCache,
         expectedFinalPaths |-> {},
         registeredFinalPaths |-> {},
         isComplete |-> none,
         completedPaths |-> IF none THEN <<wildcardPath>> ELSE <<>>,
         pendingPaths |-> IF none THEN <<>>
                          ELSE <<buildDiscoveryPath(p.segments, p.wildcardLevels[1])>>]

\* wildcardExpander.checkCompletion
checkCompletion(e) ==
    LET noPendingPaths == e.pendingPaths = <<>>
        allFinalPathsRegistered ==
            Cardinality(e.expectedFinalPaths) = Cardinality(e.registeredFinalPaths)
    IN  IF e.expectedFinalPaths = {}
        THEN [e EXCEPT !.isComplete = noPendingPaths]
        ELSE [e EXCEPT !.isComplete = noPendingPaths /\ allFinalPathsRegistered]

\* wildcardExpander.isValidRegistrationPath
isValidRegistrationPath(e, path) ==
    \E k \in 1..Len(e.wildcardLevels) :
        LET wildcardLevel == e.wildcardLevels[k]
        IN  /\ Len(path) = wildcardLevel
            /\ \A i \in 0..(wildcardLevel - 1) :
                  ~(e.pathSegments[i + 1] # "*" /\ path[i + 1] # e.pathSegments[i + 1])

\* wildcardExpander.buildCompletePath
buildCompletePath(e, basePath, index) ==
    LET currentWildcardLevel == Len(basePath)
        isLevel(i) == \E k \in 1..Len(e.wildcardLevels) : e.wildcardLevels[k] = i
    IN  [i \in 1..Len(e.pathSegments) |->
            IF isLevel(i - 1) /\ i - 1 < currentWildcardLevel THEN basePath[i]
            ELSE IF isLevel(i - 1) /\ i - 1 = currentWildcardLevel THEN Itoa(index)
            ELSE e.pathSegments[i]]

\* wildcardExpander.generateFinalPaths
generateFinalPaths(e, basePath, indices) ==
    [e EXCEPT !.completedPaths =
        @ \o [j \in 1..Len(indices) |-> buildCompletePath(e, basePath, indices[j])]]

\* wildcardExpander.buildNextLevelPath
buildNextLevelPath(e, basePath, index, nextWildcardLevel) ==
    LET baseWithoutDot == TrimSuffixDot(basePath)
        currentLevel == Len(baseWithoutDot)
        between == SubSeq(e.pathSegments, currentLevel + 1, nextWildcardLevel)
        literal == {i \in 1..Len(between) : between[i] # "*"}
        kept == [j \in 1..Cardinality(literal) |->
                    between[CHOOSE i \in literal :
                                Cardinality({h \in literal : h < i}) = j - 1]]
    IN  baseWithoutDot \o <<Itoa(index)>> \o kept \o <<"">>

\* wildcardExpander.processRegistration: [e, err]
processRegistration(e, path, indices) ==
    LET currentWildcardLevel == Len(path)
        found == {k \in 1..Len(e.wildcardLevels) :
                     e.wildcardLevels[k] = currentWildcardLevel}
    IN  IF found = {}
        THEN [e |-> e, err |-> "internal error: wildcard level not found"]
        ELSE LET wildcardIndex == CHOOSE k \in found : \A h \in found : k <= h
             IN  IF wildcardIndex = Len(e.wildcardLevels)
                 THEN LET e1 == generateFinalPaths(e, path, indices)
                          e2 == IF e1.expectedFinalPaths # {}
                                THEN [e1 EXCEPT !.registeredFinalPaths = @ \cup {path}]
                                ELSE e1
                      IN  [e |-> checkCompletion(e2), err |-> "nil"]
                 ELSE LET nextWildcardLevel == e.wildcardLevels[wildcardIndex + 1]
                          nextPaths == [j \in 1..Len(indices) |->
                              buildNextLevelPath(e, path, indices[j], nextWildcardLevel)]
                      IN  IF wildcardIndex + 1 = Len(e.wildcardLevels)
                          THEN [e |-> [e EXCEPT
                                   !.expectedFinalPaths =
                                       @ \cup {TrimSuffixDot(n) : n \in Range(nextPaths)},
                                   !.pendingPaths = @ \o nextPaths],
                                err |-> "nil"]
                          ELSE [e |-> [e EXCEPT !.pendingPaths = @ \o nextPaths],
                                err |-> "nil"]

\* extractIndicesFromParameterNames: the indices named directly below path
extractIndicesFromParameterNames(path, parameterNames) ==
    extractIndices(path, parameterNames)

\* wildcardExpander.NextDiscoveryPath: [e, path, ok]
WxNextDiscoveryPath(e) ==
    LET e1 == checkCompletion(e)
    IN  IF e1.isComplete \/ e1.pendingPaths = <<>>
        THEN [e |-> e1, path |-> EmptyStr, ok |-> FALSE]
        ELSE [e |-> [e1 EXCEPT !.pendingPaths = Tail(@)],
              path |-> Head(e1.pendingPaths), ok |-> TRUE]

\* wildcardExpander.RegisterParameterNames: [e, err]
WxRegisterParameterNames(e, path, parameterNames) ==
    LET indices == extractIndicesFromParameterNames(path, parameterNames)
    IN  IF e.isComplete /\ path \notin e.expectedFinalPaths
        THEN [e |-> e, err |-> "ErrAlreadyComplete"]
        ELSE IF ~isValidRegistrationPath(e, path)
        THEN [e |-> e, err |-> "ErrPathMismatch"]
        ELSE processRegistration(
                 [e EXCEPT !.discoveredPaths = (path :> indices) @@ @], path, indices)

\* wildcardExpander.IsComplete: [e, result]
WxIsComplete(e) ==
    LET e1 == checkCompletion(e) IN [e |-> e1, result |-> e1.isComplete]

\* wildcardExpander.ExpandedPaths: nil before completion
WxExpandedPaths(e) ==
    IF ~e.isComplete THEN [isNil |-> TRUE, paths |-> <<>>]
    ELSE [isNil |-> FALSE, paths |-> e.completedPaths]

(***************************************************************************)
(* The caller.  Each action is one call of the public API on the engine.   *)
(* ret records the call and what it returned, prev the call before it,     *)
(* hist the names of the calls since the last Reset as long as they make   *)
(* one basic round, orderly whether the caller has kept to the protocol    *)
(* since the last Reset: Next and Collect only with no prefix outstanding, *)
(* Collect only with an empty queue, and no Add rejected.  unanswered is   *)
(* the prefix Next returned until a Register is accepted, inTurn whether   *)
(* every Next since the last Reset was called with no prefix unanswered,   *)
(* asked the prefixes Next has returned since then; these three are kept   *)
(* where env.track says the caller keeps that log.  returned is the list   *)
(* of those prefixes in the order of their first return, kept where        *)
(* env.log says so and as long as the caller is orderly.  The identifier   *)
(* lists handed to Register are the answers of a device to the discovery   *)
(* path last handed out.                                                   *)
(***************************************************************************)
Overflow == <<"more">>

\* the calls since the last Reset while they follow the basic round: Adds
\* (from the second on they count as one), Next, Register, Collect
Push(h, op) ==
    CASE op = "Add" /\ h = <<>> -> <<"Add">>
      [] op = "Add" /\ h \in {<<"Add">>, <<"Add", "Add">>} -> <<"Add", "Add">>
      [] op = "Next" /\ h \in {<<"Add">>, <<"Add", "Add">>} -> Append(h, "Next")
      [] op = "Register" /\ h # <<>> /\ Last(h) = "Next" -> Append(h, "Register")
      [] op = "Collect" /\ h # <<>> /\ Last(h) = "Register" -> Append(h, "Collect")
      [] OTHER -> Overflow

None == <<>>

Some(x) == <<x>>

\* dirty: whether the engine reset had a cache entry
FreshRet == [op |-> "Reset", err |-> "nil", dirty |-> FALSE]

\* the identifiers pathWithoutDot.i for the indices of S, highest first
RECURSIVE IdList(_, _)
IdList(pathWithoutDot, S) ==
    IF S = {} THEN <<>>
    ELSE LET m == CHOOSE x \in S : \A y \in S : y <= x
         IN  <<pathWithoutDot \o <<Itoa(m)>>>> \o IdList(pathWithoutDot, S \ {m})

\* an answer with a non-numeric child, a descendant of instance 2, instance 2
\* itself twice and a name outside the prefix
NoisyList(pathWithoutDot) ==
    <<pathWithoutDot \o <<"x">>, pathWithoutDot \o <<"2", "B">>,
      pathWithoutDot \o <<"2">>, pathWithoutDot \o <<"2">>, <<"E", "1">>>>

\* an answer with a child named by a negative number next to instance 1
SignedList(pathWithoutDot) ==
    <<pathWithoutDot \o <<"-1">>, pathWithoutDot \o <<"1">>>>

Responses(discoveryPath) ==
    LET pathWithoutDot == TrimSuffixDot(discoveryPath)
    IN  {IdList(pathWithoutDot, S) : S \in SUBSET (1..MaxIndex)}
        \cup (IF env.noisy THEN {NoisyList(pathWithoutDot)} ELSE {})
        \cup (IF env.signed THEN {SignedList(pathWithoutDot)} ELSE {})

\* the log of returned prefixes after a call: empty once the caller has
\* left the protocol
Logged(l) == IF env.log /\ orderly' THEN l ELSE <<>>

SetEngine(e) ==
    /\ paths' = e.paths
    /\ cache' = e.cache
    /\ pendingDiscoveries' = e.pending
    /\ processedDiscoveries' = e.processed
    /\ expandedPaths' = e.expandedPaths
    /\ expandedSet' = e.expandedSet
    /\ isComplete' = e.isComplete
    /\ lastDiscoveryPath' = e.last

\* ret of an Add also keeps what the engine held when Add was called
Add ==
    \E list \in env.adds : \E r \in EngineAdd(Engine, list) :
        /\ SetEngine(r.e)
        /\ ret' = [op |-> "Add", err |-> r.err, arg |-> list,
                   wasComplete |-> isComplete, earlier |-> expandedPaths]
        /\ prev' = ret
        /\ hist' = Push(hist, "Add")
        /\ added' = IF r.err = "nil" THEN added \cup Range(list) ELSE added
        /\ offered' = offered \cup (Range(list) \ {EmptyStr})
        /\ orderly' = (orderly /\ r.err = "nil")
        /\ returned' = Logged(returned)
        /\ UNCHANGED <<outstanding, unanswered, inTurn, asked, env>>
        /\ UNCHANGED wxVars

Next ==
    \E r \in EngineNext(Engine) :
        /\ SetEngine(r.e)
        /\ ret' = [op |-> "Next", err |-> "nil", path |-> r.path,
                   hasMore |-> r.hasMore]
        /\ prev' = ret
        /\ hist' = Push(hist, "Next")
        /\ outstanding' = IF r.hasMore THEN Some(r.path) ELSE outstanding
        /\ orderly' = (orderly /\ outstanding = None)
        /\ unanswered' = IF env.track /\ r.hasMore THEN Some(r.path) ELSE unanswered
        /\ inTurn' = (inTurn /\ unanswered = None)
        /\ asked' = IF env.track /\ r.hasMore THEN asked \cup {r.path} ELSE asked
        /\ returned' = Logged(IF r.hasMore /\ r.path \notin Range(returned)
                              THEN Append(returned, r.path) ELSE returned)
        /\ UNCHANGED <<added, offered, env>>
        /\ UNCHANGED wxVars

\* a failed Register has not looked at its argument
Register ==
    \E results \in Responses(lastDiscoveryPath) :
      \E r \in EngineRegister(Engine, results) :
        /\ SetEngine(r.e)
        /\ ret' = [op |-> "Register", err |-> r.err,
                   arg |-> IF r.err = "nil" THEN results ELSE <<>>]
        /\ prev' = ret
        /\ hist' = Push(hist, "Register")
        /\ outstanding' = None
        /\ unanswered' = IF r.err = "nil" THEN None ELSE unanswered
        /\ UNCHANGED <<added, offered, orderly, inTurn, asked, returned, env>>
        /\ UNCHANGED wxVars

Collect ==
    \E r \in EngineCollect(Engine) :
        /\ SetEngine(r.e)
        /\ ret' = [op |-> "Collect", err |-> r.err, paths |-> r.paths]
        /\ prev' = ret
        /\ hist' = Push(hist, "Collect")
        /\ orderly' = (orderly /\ outstanding = None /\ pendingDiscoveries = <<>>)
        /\ returned' = Logged(returned)
        /\ UNCHANGED <<outstanding, unanswered, inTurn, asked, added, offered, env>>
        /\ UNCHANGED wxVars

Reset ==
    /\ SetEngine(EngineReset(Engine))
    /\ ret' = [op |-> "Reset", err |-> "nil", dirty |-> cache # NoCache]
    /\ prev' = FreshRet
    /\ hist' = <<>>
    /\ outstanding' = None
    /\ orderly' = TRUE
    /\ unanswered' = None
    /\ inTurn' = TRUE
    /\ asked' = {}
    /\ returned' = <<>>
    /\ added' = {}
    /\ offered' = {}
    /\ UNCHANGED env
    /\ UNCHANGED wxVars

InitCaller(e) ==
    /\ paths = FreshEngine.paths
    /\ cache = FreshEngine.cache
    /\ pendingDiscoveries = FreshEngine.pending
    /\ processedDiscoveries = FreshEngine.processed
    /\ expandedPaths = FreshEngine.expandedPaths
    /\ expandedSet = FreshEngine.expandedSet
    /\ isComplete = FreshEngine.isComplete
    /\ lastDiscoveryPath = FreshEngine.last
    /\ ret = FreshRet
    /\ prev = FreshRet
    /\ hist = <<>>
    /\ outstanding = None
    /\ orderly = TRUE
    /\ unanswered = None
    /\ inTurn = TRUE
    /\ asked = {}
    /\ returned = <<>>
    /\ added = {}
    /\ offered = {}
    /\ env = e

\* the tree engine in use, the single-pattern expander still in its pool
InitWith(e) ==
    /\ InitCaller(e)
    /\ wildcardExpander = PooledExpander
    /\ wret = [op |-> "New", err |-> "nil"]
    /\ unregistered = {}
    /\ reported = FALSE
    /\ repeats = 0

(***************************************************************************)
(* The patterns of the model.                                              *)
(***************************************************************************)
pA_B == <<"A", "B">>
pAxB == <<"A", "*", "B">>
pAx == <<"A", "*">>
pxB == <<"*", "B">>
pAxC == <<"A", "*", "C">>
pAxD == <<"A", "*", "D">>
pAxBxC == <<"A", "*", "B", "*", "C">>
pAxBxCx == <<"A", "*", "B", "*", "C", "*">>
pAxDxC == <<"A", "*", "D", "*", "C">>
pA1B == <<"A", "1", "B">>
pCxB == <<"C", "*", "B">>

\* the patterns of the single-pattern expander: one, two and three levels
V1Patterns == {pAxB, pAxBxC, pAxBxCx}

\* flat patterns: no wildcard, one wildcard in first, middle and last place,
\* and a list with an empty pattern between two valid ones
MainEnv ==
    [adds |-> {<<pA_B>>, <<pAxB>>, <<pAx>>, <<pxB>>, <<pAxB, EmptyStr, pA_B>>},
     noisy |-> TRUE, signed |-> FALSE, track |-> FALSE, guess |-> {}, single |-> V1Patterns, again |-> FALSE, log |-> FALSE]

\* patterns under a common ancestor and a pattern under another one
ReuseEnv ==
    [adds |-> {<<pAxC>>, <<pAxC, pAxD>>, <<pCxB>>}, noisy |-> FALSE, signed |-> FALSE, track |-> FALSE, guess |-> {}, single |-> V1Patterns, again |-> FALSE, log |-> FALSE]

\* a pattern of two wildcard levels and one that shares its outer wildcard
NestedEnv ==
    [adds |-> {<<pAxC>>, <<pAxBxC>>}, noisy |-> FALSE, signed |-> FALSE, track |-> FALSE, guess |-> {}, single |-> V1Patterns, again |-> FALSE, log |-> FALSE]

\* one pattern of two wildcard levels
PruneEnv ==
    [adds |-> {<<pAxBxC>>}, noisy |-> FALSE, signed |-> FALSE, track |-> FALSE, guess |-> {}, single |-> V1Patterns, again |-> FALSE, log |-> FALSE]

\* patterns under two ancestors, with the caller's log of returned prefixes
TurnEnv ==
    [adds |-> {<<pAxC>>, <<pCxB>>}, noisy |-> FALSE, signed |-> FALSE, track |-> TRUE, guess |-> {}, single |-> V1Patterns, again |-> FALSE, log |-> FALSE]

\* a pattern of two wildcard levels and the pattern that ends where
\* its second wildcard stands
StackedEnv ==
    [adds |-> {<<pAxBxC>>, <<pAxB>>}, noisy |-> FALSE, signed |-> FALSE, track |-> FALSE, guess |-> {}, single |-> V1Patterns, again |-> FALSE, log |-> FALSE]

\* two flat patterns, and a device that also names a child by a negative
\* number
SignedEnv ==
    [adds |-> {<<pAxB>>, <<pAxC>>}, noisy |-> TRUE, signed |-> TRUE, track |-> FALSE, guess |-> {}, single |-> V1Patterns, again |-> FALSE, log |-> FALSE]

(***************************************************************************)
(* The caller of the single-pattern expander.  New takes an instance from  *)
(* the pool and resets it to one of the patterns.  The caller registers    *)
(* the paths it was given, in any order and each once, with the answer of  *)
(* a device to that path, and now and then a path it was never given: one  *)
(* of another pattern, or a guess of env.guess that fits the pattern.      *)
(***************************************************************************)
StrayPath == <<"X">>

New ==
    \E wildcardPath \in env.single :
        /\ wildcardExpander' = reset(wildcardExpander, wildcardPath)
        /\ wret' = [op |-> "New", err |-> "nil"]
        /\ unregistered' = {}
        /\ reported' = FALSE
        /\ repeats' = 0
        /\ UNCHANGED <<engineVars, callerVars>>

NextDiscoveryPath ==
    LET r == WxNextDiscoveryPath(wildcardExpander)
    IN  /\ wildcardExpander' = r.e
        /\ wret' = [op |-> "NextDiscoveryPath", path |-> r.path, ok |-> r.ok]
        /\ unregistered' = IF r.ok THEN unregistered \cup {r.path} ELSE unregistered
        /\ UNCHANGED <<reported, repeats, engineVars, callerVars>>

\* the registrations a caller makes a second time
MaxRepeat == 1

\* the paths the caller registers: those it was given and has not registered,
\* a path of another pattern, the guesses it has not registered yet, and,
\* for a caller that repeats itself, the paths it has registered
Registrable ==
    {TrimSuffixDot(d) : d \in unregistered} \cup {StrayPath}
        \cup (env.guess \ DOMAIN wildcardExpander.discoveredPaths)
        \cup (IF env.again /\ repeats < MaxRepeat
              THEN DOMAIN wildcardExpander.discoveredPaths ELSE {})

RegisterParameterNames ==
    \E path \in Registrable :
        \E S \in SUBSET (1..MaxIndex) :
            LET r == WxRegisterParameterNames(wildcardExpander, path, IdList(path, S))
            IN  /\ wildcardExpander' = r.e
                /\ wret' = [op |-> "RegisterParameterNames", path |-> path,
                            err |-> r.err,
                            returned |-> WithDot(path) \in unregistered]
                /\ unregistered' = IF r.err = "nil"
                                   THEN unregistered \ {WithDot(path)}
                                   ELSE unregistered
                /\ repeats' = IF path \in DOMAIN wildcardExpander.discoveredPaths
                              THEN repeats + 1 ELSE repeats
                /\ UNCHANGED <<reported, engineVars, callerVars>>

IsComplete ==
    LET r == WxIsComplete(wildcardExpander)
    IN  /\ wildcardExpander' = r.e
        /\ wret' = [op |-> "IsComplete", result |-> r.result]
        /\ reported' = (reported \/ r.result)
        /\ UNCHANGED <<unregistered, repeats, engineVars, callerVars>>

ExpandedPaths ==
    /\ wret' = [op |-> "ExpandedPaths", result |-> WxExpandedPaths(wildcardExpander)]
    /\ UNCHANGED <<wildcardExpander, unregistered, reported, repeats, engineVars,
                   callerVars>>


\* a caller of the single-pattern expander that registers a path under an
\* index no device has named
GuessEnv ==
    [adds |-> {<<pA_B>>}, noisy |-> FALSE, signed |-> FALSE, track |-> FALSE,
     guess |-> {<<"A", "2", "B">>}, single |-> {pAxBxC},
     again |-> FALSE, log |-> FALSE]

\* single patterns of every shape: no wildcard, a wildcard in first, middle
\* and last place, and two and three wildcard levels
AnyEnv ==
    [adds |-> {<<pAxB>>}, noisy |-> FALSE, signed |-> FALSE, track |-> FALSE,
     guess |-> {}, single |-> {pA_B, pAxB, pAx, pxB, pAxBxC, pAxBxCx},
     again |-> FALSE, log |-> FALSE]

\* a caller of the single-pattern expander that registers a path again
RepeatEnv ==
    [adds |-> {<<pA_B>>}, noisy |-> FALSE, signed |-> FALSE, track |-> FALSE,
     guess |-> {}, single |-> {pAxB, pAxBxC}, again |-> TRUE, log |-> FALSE]

\* two patterns that part below a shared wildcard, each with a wildcard of
\* its own further down
DivergeEnv ==
    [adds |-> {<<pAxBxC, pAxDxC>>}, noisy |-> FALSE, signed |-> FALSE,
     track |-> FALSE, guess |-> {}, single |-> V1Patterns, again |-> FALSE, log |-> FALSE]

\* one pattern of three wildcard levels, with the caller's log of returned
\* prefixes
DeepEnv ==
    [adds |-> {<<pAxBxCx>>}, noisy |-> FALSE, signed |-> FALSE, track |-> FALSE,
     guess |-> {}, single |-> V1Patterns, again |-> FALSE, log |-> TRUE]

\* the patterns of a caller that adds first and then runs the discovery
\* loop, with its log of returned prefixes: two wildcard levels, and a
\* wildcard in first place
LoopEnv ==
    [adds |-> {<<pAxBxC>>, <<pxB>>}, noisy |-> FALSE, signed |-> FALSE,
     track |-> TRUE, guess |-> {}, single |-> V1Patterns, again |-> FALSE,
     log |-> FALSE]

Init == InitWith(MainEnv)

InitReuse == InitWith(ReuseEnv)

InitNested == InitWith(NestedEnv)

InitPrune == InitWith(PruneEnv)

InitTurn == InitWith(TurnEnv)

InitStacked == InitWith(StackedEnv)

InitSigned == InitWith(SignedEnv)

InitDiverge == InitWith(DivergeEnv)

InitDeep == InitWith(DeepEnv)

InitLoop == InitWith(LoopEnv)

\* the single-pattern expander as New hands it out, the tree engine unused
InitV1 ==
    /\ InitCaller(MainEnv)
    /\ \E wildcardPath \in MainEnv.single :
          wildcardExpander = reset(PooledExpander, wildcardPath)
    /\ wret = [op |-> "New", err |-> "nil"]
    /\ unregistered = {}
    /\ reported = FALSE
    /\ repeats = 0

InitV1Guess ==
    /\ InitCaller(GuessEnv)
    /\ \E wildcardPath \in GuessEnv.single :
          wildcardExpander = reset(PooledExpander, wildcardPath)
    /\ wret = [op |-> "New", err |-> "nil"]
    /\ unregistered = {}
    /\ reported = FALSE
    /\ repeats = 0

InitV1Any ==
    /\ InitCaller(AnyEnv)
    /\ \E wildcardPath \in AnyEnv.single :
          wildcardExpander = reset(PooledExpander, wildcardPath)
    /\ wret = [op |-> "New", err |-> "nil"]
    /\ unregistered = {}
    /\ reported = FALSE
    /\ repeats = 0

InitV1Repeat ==
    /\ InitCaller(RepeatEnv)
    /\ \E wildcardPath \in RepeatEnv.single :
          wildcardExpander = reset(PooledExpander, wildcardPath)
    /\ wret = [op |-> "New", err |-> "nil"]
    /\ unregistered = {}
    /\ reported = FALSE
    /\ repeats = 0

Next_ == Add \/ Next \/ Register \/ Collect \/ Reset

Spec == Init /\ [][Next_]_vars

SpecReuse == InitReuse /\ [][Next_]_vars

SpecNested == InitNested /\ [][Next_]_vars

SpecPrune == InitPrune /\ [][Next_]_vars

SpecTurn == InitTurn /\ [][Next_]_vars

SpecStacked == InitStacked /\ [][Next_]_vars

SpecSigned == InitSigned /\ [][Next_]_vars

SpecDiverge == InitDiverge /\ [][Next_]_vars

SpecDeep == InitDeep /\ [][Next_]_vars

(***************************************************************************)
(* The discovery loop of a caller: the Adds come first, then Next is       *)
(* called until it reports the end, and each prefix it returns is answered *)
(* by one Register; after a Register that returned an error the loop goes  *)
(* on with the next Next.                                                  *)
(***************************************************************************)
LoopAdd == (\A i \in 1..Len(hist) : hist[i] = "Add") /\ Add

LoopNext == outstanding = None /\ ~(ret.op = "Next" /\ ~ret.hasMore) /\ Next

LoopRegister == outstanding # None /\ Register

NextLoop == LoopAdd \/ LoopNext \/ LoopRegister

\* the caller keeps calling as long as its loop has not ended
SpecLoop ==
    InitLoop /\ [][NextLoop]_vars /\ WF_vars(LoopNext) /\ WF_vars(LoopRegister)

NextV1 ==
    New \/ NextDiscoveryPath \/ RegisterParameterNames \/ IsComplete \/ ExpandedPaths

SpecV1 == InitV1 /\ [][NextV1]_vars

SpecV1Guess == InitV1Guess /\ [][NextV1]_vars

SpecV1Repeat == InitV1Repeat /\ [][NextV1]_vars

SpecV1Any == InitV1Any /\ [][NextV1]_vars

(***************************************************************************)
(* What the claims are stated against.  Expansions(p, c) are the concrete  *)
(* paths of pattern p under the cache c, read off the pattern alone: every *)
(* literal segment is kept, and a wildcard is replaced by each index the   *)
(* cache holds for the concrete prefix built so far.                       *)
(***************************************************************************)
PrefixOf(concrete) == IF concrete = <<>> THEN EmptyStr ELSE WithDot(concrete)

RECURSIVE ExpansionsFrom(_, _, _, _)
ExpansionsFrom(p, k, concrete, c) ==
    IF k > Len(p) THEN {concrete}
    ELSE IF p[k] = "*"
    THEN IF PrefixOf(concrete) \notin DOMAIN c THEN {}
         ELSE UNION {ExpansionsFrom(p, k + 1, Append(concrete, Itoa(i)), c) :
                        i \in Range(c[PrefixOf(concrete)])}
    ELSE ExpansionsFrom(p, k + 1, Append(concrete, p[k]), c)

Expansions(p, c) == ExpansionsFrom(p, 1, <<>>, c)

ExpansionsOfAll(ps, c) == UNION {Expansions(p, c) : p \in ps}

Wildcards(p) == {k \in 1..Len(p) : p[k] = "*"}

Completed == ret.op = "Next" /\ ~ret.hasMore

CollectedAfterCompletion ==
    /\ prev.op = "Next" /\ ~prev.hasMore
    /\ ret.op = "Collect"

FirstWildcard(p) == CHOOSE k \in Wildcards(p) : \A j \in Wildcards(p) : k <= j

\* the discovery path of the first wildcard of p
FirstPrefix(p) == PrefixOf(SubSeq(p, 1, FirstWildcard(p) - 1))

Subst(p, k, i) == [p EXCEPT ![k] = Itoa(i)]

Count(x, s) == Cardinality({i \in 1..Len(s) : s[i] = x})

OnlyAdds(h) == h # Overflow /\ \A i \in 1..Len(h) : h[i] = "Add"

\* h is one or more Adds followed by the calls of tail
AddsThen(h, tail) ==
    /\ h # Overflow
    /\ Len(h) > Len(tail)
    /\ OnlyAdds(SubSeq(h, 1, Len(h) - Len(tail)))
    /\ SubSeq(h, Len(h) - Len(tail) + 1, Len(h)) = tail

\* the indices a clean answer lists under the prefix
ListedIndices(prefix, names) ==
    {i \in 1..MaxIndex : TrimSuffixDot(prefix) \o <<Itoa(i)>> \in Range(names)}

CleanAnswer(prefix, names) ==
    names = IdList(TrimSuffixDot(prefix), ListedIndices(prefix, names))

\* C1: once Next has returned ("", false), Collect returns every expansion
\* of every added pattern over the registered index sets.
C1_CollectHoldsEveryExpansion ==
    CollectedAfterCompletion =>
        /\ ret.err = "nil"
        /\ ExpansionsOfAll(added, cache) \subseteq Range(ret.paths)

\* C2: a fresh engine, Add of one pattern with exactly one wildcard, one
\* Next, one Register of N distinct indices, then Collect: Register is
\* accepted and Collect returns exactly the N paths got by putting each
\* index in the place of the wildcard.
C2_SingleWildcardExpands ==
    \A p \in offered :
        ( /\ hist = <<"Add", "Next", "Register", "Collect">>
          /\ offered = {p} /\ added = {p}
          /\ Cardinality(Wildcards(p)) = 1
          /\ prev.err = "nil" => CleanAnswer(FirstPrefix(p), prev.arg) )
        => /\ prev.err = "nil"
           /\ ret.err = "nil"
           /\ Range(ret.paths) =
                {Subst(p, FirstWildcard(p), i) :
                    i \in ListedIndices(FirstPrefix(p), prev.arg)}
           /\ Len(ret.paths) =
                Cardinality(ListedIndices(FirstPrefix(p), prev.arg))

\* C3: while every pattern handed to Add is free of wildcards, Next never
\* returns a discovery prefix; and when one such pattern is the only one
\* handed to Add, Collect returns the list holding exactly that pattern.
C3_NoWildcardYieldsItself ==
    /\ (ret.op = "Next" /\ \A p \in offered : Wildcards(p) = {})
          => (~ret.hasMore /\ ret.path = EmptyStr)
    /\ \A p \in offered :
          (ret.op = "Collect" /\ offered = {p} /\ added = {p} /\ Wildcards(p) = {})
             => (ret.err = "nil" /\ ret.paths = <<p>>)

C3_Witness ==
    /\ ret.op = "Collect" /\ ret.paths = <<pA_B>>
    /\ prev.op = "Next" /\ ~prev.hasMore /\ prev.path = EmptyStr
    /\ offered = {pA_B}

\* C4: patterns sharing a wildcard ancestor prefix, added in one or several
\* Adds before any Next: the pending queue holds that prefix exactly once;
\* Next hands it out and it is queued no more; and after one Register (the
\* patterns having this one wildcard) Collect holds every pattern expanded
\* over the one registered index set.
C4_CommonAncestorQueuedOnce ==
    /\ OnlyAdds(hist) =>
          \A p \in added : Wildcards(p) # {} =>
              Count(FirstPrefix(p), pendingDiscoveries) = 1
    /\ (AddsThen(hist, <<"Next">>) /\ offered = added /\ ret.hasMore) =>
          /\ ret.path \in {FirstPrefix(p) : p \in {q \in added : Wildcards(q) # {}}}
          /\ Count(ret.path, pendingDiscoveries) = 0
    /\ \A d \in DOMAIN cache :
          ( /\ AddsThen(hist, <<"Next", "Register", "Collect">>)
            /\ offered = added
            /\ \A p \in added : Cardinality(Wildcards(p)) = 1 /\ FirstPrefix(p) = d )
          => /\ ret.err = "nil"
             /\ {Subst(p, FirstWildcard(p), i) : p \in added, i \in Range(cache[d])}
                   \subseteq Range(ret.paths)

C4_Witness ==
    /\ hist = <<"Add", "Add", "Next", "Register", "Collect">>
    /\ added = {pAxC, pAxD}
    /\ prev.arg = <<<<"A", "2">>, <<"A", "1">>>>
    /\ ret.paths = <<<<"A", "1", "C">>, <<"A", "1", "D">>,
                     <<"A", "2", "C">>, <<"A", "2", "D">>>>

\* the prefixes registered with no index
EmptyPrefixes == {d \in DOMAIN cache : cache[d] = <<>>}

\* path q lies below the discovery path d
Under(q, d) == HasPrefixDot(q, TrimSuffixDot(d))

\* C5: a Register of the empty list for the prefix handed out stores the
\* empty index set for it and adds nothing to the pending queue; the Collect
\* after completion holds no path through the wildcard below such a prefix,
\* holds every expansion of the added patterns through the other indices;
\* and once every pending prefix is registered Next reports completion.
C5_EmptyAnswerPrunesBranch ==
    /\ [][(/\ ret'.op = "Register" /\ ret'.err = "nil" /\ ret'.arg = <<>>
           /\ outstanding = Some(lastDiscoveryPath)) =>
              /\ lastDiscoveryPath \in DOMAIN cache'
              /\ cache'[lastDiscoveryPath] = <<>>
              /\ pendingDiscoveries' = pendingDiscoveries]_vars
    /\ []((CollectedAfterCompletion /\ EmptyPrefixes # {}) =>
              /\ ret.err = "nil"
              /\ \A d \in EmptyPrefixes : \A q \in Range(ret.paths) :
                    Under(q, d) => q \in ExpansionsOfAll(offered, cache)
              /\ ExpansionsOfAll(added, cache) \subseteq Range(ret.paths))
    /\ [][(/\ ret'.op = "Next" /\ EmptyPrefixes # {}
           /\ \A d \in Range(pendingDiscoveries) : d \in DOMAIN cache) =>
              ~ret'.hasMore]_vars

C5_Witness ==
    /\ CollectedAfterCompletion
    /\ added = {pAxBxC}
    /\ cache = (<<"A", "">> :> <<1, 2>>) @@ (<<"A", "1", "B", "">> :> <<>>)
                  @@ (<<"A", "2", "B", "">> :> <<1>>)
    /\ ret.paths = <<<<"A", "2", "B", "1", "C">>>>

\* the discovery path of the second wildcard of p below index i of the first
SecondPrefix(p, i) ==
    LET k == CHOOSE j \in Wildcards(p) \ {FirstWildcard(p)} :
                 \A l \in Wildcards(p) \ {FirstWildcard(p)} : j <= l
    IN  PrefixOf(SubSeq(Subst(p, FirstWildcard(p), i), 1, k - 1))

\* C6: an Add of a pattern with two or more wildcards whose first wildcard
\* prefix is already cached does not put that prefix on the pending queue
\* again, and leaves the next-level prefix of every cached index pending
\* (or already cached), so that driving Next/Register expands the pattern.
C6_LateNestedPatternIsDiscovered ==
    [][(ret'.op = "Add" /\ ret'.err = "nil") =>
          \A p \in Range(ret'.arg) :
              (Cardinality(Wildcards(p)) >= 2 /\ FirstPrefix(p) \in DOMAIN cache) =>
                  /\ FirstPrefix(p) \notin Range(pendingDiscoveries')
                  /\ \A i \in Range(cache[FirstPrefix(p)]) :
                        SecondPrefix(p, i) \in
                            Range(pendingDiscoveries') \cup DOMAIN cache']_vars

\* every wildcard prefix that expanding p over c comes to has an entry in c
RECURSIVE AllCachedFrom(_, _, _, _)
AllCachedFrom(p, k, concrete, c) ==
    IF k > Len(p) THEN TRUE
    ELSE IF p[k] = "*"
    THEN /\ PrefixOf(concrete) \in DOMAIN c
         /\ \A i \in Range(c[PrefixOf(concrete)]) :
               AllCachedFrom(p, k + 1, Append(concrete, Itoa(i)), c)
    ELSE AllCachedFrom(p, k + 1, Append(concrete, p[k]), c)

AllCached(p, c) == AllCachedFrom(p, 1, <<>>, c)

\* r is an accepted Add of patterns to an engine that was complete, made by
\* a caller that has kept to the protocol
AddAfterCompletion(r) ==
    orderly /\ r.op = "Add" /\ r.err = "nil" /\ r.arg # <<>> /\ r.wasComplete

\* C7: after an Add to a completed engine of patterns whose wildcard
\* prefixes are all cached, the next Next returns ("", false), and the
\* Collect after it returns the paths held before the Add together with the
\* expansions of the new patterns over the cache, in ascending order.
C7_CachedPrefixesAreReused ==
    /\ [][(/\ AddAfterCompletion(ret)
           /\ \A p \in Range(ret.arg) : AllCached(p, cache)
           /\ ret'.op = "Next") =>
              (~ret'.hasMore /\ ret'.path = EmptyStr)]_vars
    /\ [][(/\ AddAfterCompletion(prev)
           /\ \A p \in Range(prev.arg) : AllCached(p, cache)
           /\ Completed
           /\ ret'.op = "Collect") =>
              /\ ret'.err = "nil"
              /\ ret'.paths = SortStrings(Range(prev.earlier)
                                 \cup ExpansionsOfAll(Range(prev.arg), cache))]_vars

C7_Witness ==
    /\ AddAfterCompletion(prev) /\ prev.arg = <<pAxC, pAxD>>
    /\ prev.earlier = <<<<"A", "1", "C">>, <<"A", "2", "C">>>>
    /\ Completed
    /\ expandedPaths = <<<<"A", "1", "C">>, <<"A", "1", "D">>,
                         <<"A", "2", "C">>, <<"A", "2", "D">>>>

\* the patterns of an Add whose first wildcard prefix has no cache entry
Uncached(r, c) ==
    {p \in Range(r.arg) : Wildcards(p) # {} /\ FirstPrefix(p) \notin DOMAIN c}

\* C8: after an Add to a completed engine of a pattern whose wildcard prefix
\* is not cached, the next Next returns that prefix with hasMore = true and
\* the Register after it is accepted; and the Collect after completion
\* returns the expansions of all the patterns added so far, and no other.
C8_AddReopensCompletedEngine ==
    /\ [][(/\ AddAfterCompletion(ret) /\ Uncached(ret, cache) # {}
           /\ ret'.op = "Next") =>
              /\ ret'.hasMore
              /\ ret'.path \in {FirstPrefix(p) : p \in Uncached(ret, cache)}]_vars
    /\ [][(/\ AddAfterCompletion(prev) /\ Uncached(prev, cache) # {}
           /\ ret.op = "Next" /\ ret.hasMore
           /\ ret'.op = "Register") =>
              ret'.err = "nil"]_vars
    /\ [](CollectedAfterCompletion =>
              /\ ret.err = "nil"
              /\ ExpansionsOfAll(added, cache) \subseteq Range(ret.paths)
              /\ Range(ret.paths) \subseteq ExpansionsOfAll(offered, cache))

C8_Witness ==
    /\ AddAfterCompletion(prev) /\ prev.arg = <<pCxB>>
    /\ prev.earlier = <<<<"A", "1", "C">>>>
    /\ ret.op = "Next" /\ ret.hasMore /\ ret.path = <<"C", "">>

\* C9: an Add that returns an error leaves every field of the engine as it
\* was, so every later call behaves as if that Add had not been made.
C9_FailedAddHasNoEffect ==
    [][(ret'.op = "Add" /\ ret'.err # "nil") => UNCHANGED engineVars]_vars

\* C10: Next called while a prefix is outstanding returns that prefix again
\* with hasMore = true and leaves the pending queue as it was.
C10_NextRereadsOutstanding ==
    [][(outstanding # None /\ ret'.op = "Next") =>
          /\ ret'.hasMore
          /\ ret'.path = outstanding[1]
          /\ pendingDiscoveries' = pendingDiscoveries]_vars

\* C11: once Next has returned ("", false) or Collect has returned without
\* an error, and as long as the engine is marked complete, the pending
\* queue is empty and no returned prefix is waiting for its Register.
C11_CompletionMeansNothingOpen ==
    /\ ((ret.op = "Next" /\ ~ret.hasMore) \/ (ret.op = "Collect" /\ ret.err = "nil"))
          => (pendingDiscoveries = <<>> /\ outstanding = None)
    /\ isComplete => (pendingDiscoveries = <<>> /\ outstanding = None)

\* C12: a Collect called while the pending queue is non-empty or while a
\* prefix returned by Next has had no Register returns an error and no
\* paths.
C12_CollectRefusesWhileOpen ==
    [][(ret'.op = "Collect" /\ (pendingDiscoveries # <<>> \/ outstanding # None))
          => (ret'.err # "nil" /\ ret'.paths = <<>>)]_vars

\* C13: a Register called while no prefix returned by Next is waiting for
\* its answer (before any Next, right after a Register, after Next returned
\* ("", false)) returns an error and leaves the cache, the pending queue
\* and the collected paths as they were.
C13_RegisterRefusesUnasked ==
    [][(ret'.op = "Register" /\ outstanding = None)
          => (ret'.err # "nil"
              /\ UNCHANGED <<cache, pendingDiscoveries, expandedPaths>>)]_vars

\* C14: as long as every Next since the last Reset was called with the
\* prefix of the Next before it answered by an accepted Register, whatever
\* Adds came in between, Next returns no prefix it has returned before.
C14_NoPrefixAskedTwice ==
    [][(ret'.op = "Next" /\ ret'.hasMore /\ inTurn') => ret'.path \notin asked]_vars

\* C15: a Collect that succeeds leaves the engine complete and returns the
\* list the engine holds; on a complete engine Collect and Next change no
\* state and Collect returns that list without an error.  So every Collect
\* after a successful one, until an Add, Register or Reset, returns the same
\* list in the same order.
C15_CollectIsIdempotent ==
    [][/\ (ret'.op = "Collect" /\ ret'.err = "nil")
            => (isComplete' /\ ret'.paths = expandedPaths')
       /\ (isComplete /\ ret'.op \in {"Collect", "Next"})
            => (/\ UNCHANGED engineVars
                /\ ret'.op = "Collect"
                      => (ret'.err = "nil" /\ ret'.paths = expandedPaths))]_vars

\* two successful Collects in a row with the same two paths
C15_Witness ==
    /\ prev.op = "Collect" /\ prev.err = "nil"
    /\ ret.op = "Collect" /\ ret.err = "nil"
    /\ ret.paths = prev.paths
    /\ ret.paths = <<<<"A", "1", "B">>, <<"A", "2", "B">>>>

\* C16: the list of a successful Collect has no element twice, ascends in
\* byte order, and holds exactly the paths that expanding the tree over the
\* cache yields now, whatever earlier completions have accumulated.
C16_CollectIsTheRecomputation ==
    (ret.op = "Collect" /\ ret.err = "nil")
        => /\ \A i, j \in 1..Len(ret.paths) : i < j => StrLess(ret.paths[i], ret.paths[j])
           /\ Range(ret.paths) = treeExpandedPaths(paths, cache)

\* C17: a prefix that Next returns with hasMore = true is not the empty
\* string, ends with the separator and has no wildcard segment, and the
\* Register that follows that Next is accepted.
C17_ReturnedPrefixIsAnswerable ==
    [][/\ (ret'.op = "Next" /\ ret'.hasMore)
            => (/\ ret'.path # EmptyStr
                /\ Last(ret'.path) = ""
                /\ "*" \notin Range(ret'.path))
       /\ (ret.op = "Next" /\ ret.hasMore /\ ret'.op = "Register")
            => ret'.err = "nil"]_vars

\* C18: Reset, which is also what Get does to an instance taken from the
\* pool, leaves the engine in the state of a new one with no prefix
\* outstanding, whatever state it was in.  Called next, Collect returns an
\* empty list without an error and Next returns ("", false); an Add of one
\* wildcard pattern queues the prefix of its first wildcard and the Next
\* after it returns that prefix, cached before the Reset or not.
C18_ResetGivesFreshEngine ==
    [][/\ ret'.op = "Reset" => (Engine' = FreshEngine /\ outstanding' = None)
       /\ (ret.op = "Reset" /\ ret'.op = "Collect")
            => (ret'.err = "nil" /\ ret'.paths = <<>>)
       /\ (ret.op = "Reset" /\ ret'.op = "Next")
            => (~ret'.hasMore /\ ret'.path = EmptyStr)
       /\ (ret.op = "Reset" /\ ret'.op = "Add" /\ ret'.err = "nil"
             /\ Len(ret'.arg) = 1 /\ Wildcards(ret'.arg[1]) # {})
            => pendingDiscoveries' = <<FirstPrefix(ret'.arg[1])>>
       /\ (prev.op = "Reset" /\ ret.op = "Add" /\ ret.err = "nil"
             /\ Len(ret.arg) = 1 /\ Wildcards(ret.arg[1]) # {} /\ ret'.op = "Next")
            => (ret'.hasMore /\ ret'.path = FirstPrefix(ret.arg[1]))]_vars

\* an engine that held answers for "A." was reset, and the Add of A.*.B
\* after the Reset has queued "A." again
C18_Witness ==
    /\ prev.op = "Reset" /\ prev.dirty
    /\ ret.op = "Add" /\ ret.arg = <<pAxB>>
    /\ cache = NoCache
    /\ pendingDiscoveries = <<<<"A", "">>>>

\* C19: whatever identifiers Register is given, it raises no error for a
\* non-numeric or sign-prefixed child, and every index it stores is a
\* non-negative integer.
C19_IndicesAreNonNegative ==
    /\ \A d \in DOMAIN cache : \A k \in 1..Len(cache[d]) : cache[d][k] >= 0
    /\ (ret.op = "Register" /\ prev.op = "Next" /\ prev.hasMore) => ret.err = "nil"

\* C20: while a discovery path that NextDiscoveryPath has returned has not
\* been registered, the single-pattern expander is not marked complete,
\* IsComplete does not return true, NextDiscoveryPath does not end the
\* expansion and RegisterParameterNames does not refuse that path as coming
\* after completion.
C20_NoCompletionWhileUnregistered ==
    unregistered # {} =>
        /\ ~wildcardExpander.isComplete
        /\ wret.op = "IsComplete" => ~wret.result
        /\ (wret.op = "RegisterParameterNames" /\ WithDot(wret.path) \in unregistered)
              => wret.err # "ErrAlreadyComplete"

\* C21: a RegisterParameterNames for a path that NextDiscoveryPath has not
\* returned changes no state of the expander and returns the path-mismatch
\* error (the completion error once the expander is complete), also when
\* the path has the length and the literal segments of the pattern.
C21_UnreturnedPathIsRefused ==
    [][(wret'.op = "RegisterParameterNames" /\ ~wret'.returned)
          => (/\ UNCHANGED wildcardExpander
              /\ wret'.err = IF wildcardExpander.isComplete
                             THEN "ErrAlreadyComplete" ELSE "ErrPathMismatch")]_vars

\* C22: once IsComplete has returned true, every RegisterParameterNames
\* returns ErrAlreadyComplete and no call but New changes what ExpandedPaths
\* returns; as long as the expansion is not complete ExpandedPaths returns
\* nil.
C22_CompleteExpanderIsClosed ==
    [][/\ (reported /\ wret'.op = "RegisterParameterNames")
            => wret'.err = "ErrAlreadyComplete"
       /\ (reported /\ wret'.op # "New")
            => WxExpandedPaths(wildcardExpander') = WxExpandedPaths(wildcardExpander)
       /\ (wret'.op = "ExpandedPaths" /\ ~checkCompletion(wildcardExpander).isComplete)
            => wret'.result.isNil]_vars

\* C23: in every reachable state the pending queue holds no prefix twice
\* and no prefix that has a cache entry.
C23_QueueHoldsNoDuplicateNoCached ==
    /\ \A i, j \in 1..Len(pendingDiscoveries) :
          i < j => pendingDiscoveries[i] # pendingDiscoveries[j]
    /\ \A i \in 1..Len(pendingDiscoveries) : pendingDiscoveries[i] \notin DOMAIN cache

\* C24: a Collect that returns an error leaves the pending queue, the
\* prefix waiting for its Register, the cache and the completion flag as
\* they were.
C24_FailedCollectChangesNothing ==
    [][(ret'.op = "Collect" /\ ret'.err # "nil")
          => UNCHANGED <<pendingDiscoveries, lastDiscoveryPath, cache, isComplete>>]_vars

\* the concrete prefixes of the wildcards of pattern p that expansion over
\* the cache c reaches: the prefix of its first wildcard, and below every
\* cached index the prefix of the next one
RECURSIVE ReachedFrom(_, _, _, _)
ReachedFrom(p, k, concrete, c) ==
    IF k > Len(p) THEN {}
    ELSE IF p[k] = "*"
    THEN {PrefixOf(concrete)}
         \cup (IF PrefixOf(concrete) \notin DOMAIN c THEN {}
               ELSE UNION {ReachedFrom(p, k + 1, Append(concrete, Itoa(i)), c) :
                              i \in Range(c[PrefixOf(concrete)])})
    ELSE ReachedFrom(p, k + 1, Append(concrete, p[k]), c)

Reached(ps, c) == UNION {ReachedFrom(p, 1, <<>>, c) : p \in ps}

\* C25: when a caller that kept to the protocol has driven discovery to
\* completion and Collect succeeds, every wildcard that expansion of the
\* added patterns reaches has a cache entry for its concrete prefix.
C25_EveryReachedWildcardWasQueried ==
    (CollectedAfterCompletion /\ ret.err = "nil" /\ orderly)
        => Reached(added, cache) \subseteq DOMAIN cache

\* C26: when a pattern that ends at a node and a longer pattern that runs
\* through that node are both added, the list of a successful Collect after
\* completion holds the expansions of the shorter and of the longer pattern.
C26_LeafAndInnerNodeBothExpand ==
    (/\ CollectedAfterCompletion /\ ret.err = "nil" /\ orderly
     /\ {pAxB, pAxBxC} \subseteq added)
        => /\ Expansions(pAxB, cache) \subseteq Range(ret.paths)
           /\ Expansions(pAxBxC, cache) \subseteq Range(ret.paths)

\* d is a discovery path of pattern p: p has a wildcard where d ends, and
\* above it d follows p, with anything in the place of a wildcard
Asks(p, d) ==
    /\ Len(d) <= Len(p) /\ p[Len(d)] = "*"
    /\ \A j \in 1..(Len(d) - 1) : p[j] \in {"*", d[j]}

\* the places of the prefix d that hold an index in the place of a wildcard
\* of every added pattern that asks for d
IndexPlaces(d) ==
    {k \in 1..(Len(d) - 1) :
        /\ \E p \in added : Asks(p, d)
        /\ \A p \in added : Asks(p, d) => p[k] = "*"}

\* C27: discovery is top-down.  Every index a prefix returned by Next holds
\* in the place of a wildcard is in the index set a Register stored before
\* for the prefix of that wildcard, so no nested prefix is returned before
\* its parent is registered.
C27_DiscoveryIsTopDown ==
    (ret.op = "Next" /\ ret.hasMore)
        => \A k \in IndexPlaces(ret.path) :
              /\ PrefixOf(SubSeq(ret.path, 1, k - 1)) \in DOMAIN cache
              /\ \E i \in Range(cache[PrefixOf(SubSeq(ret.path, 1, k - 1))]) :
                    Itoa(i) = ret.path[k]

\* Next returns a prefix below an index of a registered wildcard
C27_Witness ==
    /\ ret.op = "Next" /\ ret.hasMore
    /\ IndexPlaces(ret.path) # {}
    /\ Len(cache[FirstPrefix(pAxBxC)]) = 2

\* q is p with something appended
Extends(q, p) == Len(p) <= Len(q) /\ SubSeq(q, 1, Len(p)) = p

\* C28: a successful Register answers the prefix most recently returned by
\* Next: it writes the cache entry of that prefix, equal to the indices
\* extracted from the identifiers against it, and no other entry, leaves the
\* tree unchanged, only appends to the pending queue, and clears the
\* outstanding marker, so that a Register with no prefix returned by Next
\* since the last accepted Register is not successful.
C28_RegisterWritesOneEntry ==
    [][(ret'.op = "Register" /\ ret'.err = "nil")
          => /\ outstanding # None
             /\ cache' = (outstanding[1] :> extractIndices(outstanding[1], ret'.arg))
                             @@ cache
             /\ paths' = paths
             /\ Extends(pendingDiscoveries', pendingDiscoveries)
             /\ lastDiscoveryPath' = EmptyStr]_vars

\* C29: a cache entry is immutable once written.  No Add, Next, Register or
\* Collect removes the entry of a registered prefix or changes the index set
\* stored for it; only Reset removes it.
C29_CacheEntryIsImmutable ==
    [][ret'.op # "Reset"
          => \A d \in DOMAIN cache : d \in DOMAIN cache' /\ cache'[d] = cache[d]]_vars

\* a Register is accepted while the cache holds the entry of another prefix
C29_Witness ==
    /\ ret.op = "Register" /\ ret.err = "nil"
    /\ Cardinality(DOMAIN cache) >= 2
    /\ \E d \in DOMAIN cache : Len(cache[d]) = 2

\* Next has handed out the k-th prefix of the queue: the prefixes before it
\* were answered already, and the ones behind it stay in their order
ServedFrom(k) ==
    /\ pendingDiscoveries[k] = ret'.path
    /\ \A j \in 1..(k - 1) :
          pendingDiscoveries[j] \in processedDiscoveries \cup DOMAIN cache
    /\ Extends(pendingDiscoveries',
               SubSeq(pendingDiscoveries, k + 1, Len(pendingDiscoveries)))

\* the part of the queue q behind the first n prefixes ascends by the index
\* in place k
AscendsBehind(q, n, k) ==
    \A a, b \in (n + 1)..Len(q) : a < b => Atoi(q[a][k]) < Atoi(q[b][k])

\* the place of the index the prefix d holds for its innermost wildcard
LastIndexPlace(d) ==
    CHOOSE k \in IndexPlaces(d) : \A j \in IndexPlaces(d) : j <= k

ParentOf(d) == PrefixOf(SubSeq(d, 1, LastIndexPlace(d) - 1))

PlaceIn(l, x) == CHOOSE n \in 1..Len(l) : l[n] = x

\* in the log l the prefix x has its place before y: it is of a level
\* further up, or of the same level with a parent returned earlier, or with
\* the same parent and a lower index
ComesBefore(l, x, y) ==
    IF Len(x) # Len(y) THEN Len(x) < Len(y)
    ELSE /\ IndexPlaces(x) # {} /\ IndexPlaces(y) # {}
         /\ ParentOf(x) \in Range(l) /\ ParentOf(y) \in Range(l)
         /\ IF ParentOf(x) # ParentOf(y)
            THEN PlaceIn(l, ParentOf(x)) < PlaceIn(l, ParentOf(y))
            ELSE Atoi(x[LastIndexPlace(x)]) < Atoi(y[LastIndexPlace(y)])

BreadthFirst(l) == \A i, j \in 1..Len(l) : i < j => ComesBefore(l, l[i], l[j])

\* C30: Next serves the pending queue first in, first out, Register appends
\* the next-level prefixes by ascending index, and so the prefixes of one
\* pattern are returned breadth-first: a level before the next one, and
\* within a level in the order in which the parents were registered and
\* then by ascending index.
C30_PrefixesComeBreadthFirst ==
    [][/\ (ret'.op = "Next" /\ ret'.hasMore)
            => \E k \in 1..Len(pendingDiscoveries) : ServedFrom(k)
       /\ (ret'.op = "Register" /\ ret'.err = "nil")
            => AscendsBehind(pendingDiscoveries', Len(pendingDiscoveries),
                             Len(lastDiscoveryPath))
       /\ returned' # returned => BreadthFirst(returned')]_vars

\* all seven prefixes of the three-level pattern have been returned
C30_Witness ==
    /\ Len(returned) = 7
    /\ ret.op = "Next" /\ ret.hasMore

\* C31: the result is sound.  Every path of a successful Collect has no
\* wildcard segment and is an expansion of an added pattern under the cache:
\* it follows the pattern segment by segment and holds, in the place of each
\* wildcard, an index of the cache entry of the prefix made of its segments
\* before that place, so that inner indices are those of its own outer
\* instance.
C31_CollectedPathsAreSound ==
    (ret.op = "Collect" /\ ret.err = "nil")
        => \A q \in Range(ret.paths) :
              /\ "*" \notin Range(q)
              /\ q \in ExpansionsOfAll(added, cache)

\* the device that answers every prefix with the instances of S
AnswerOf(S, prefix) == IdList(TrimSuffixDot(prefix), S)

\* the runs of a caller that alternates Next and Register on the engine e
\* with the device of S and then calls Collect: for each order in which the
\* maps may be walked, the prefixes queried and the list collected
RECURSIVE RunsFrom(_, _, _)
RunsFrom(e, queried, S) ==
    UNION {IF r.hasMore
           THEN UNION {RunsFrom(g.e, queried \cup {r.path}, S) :
                          g \in EngineRegister(r.e, AnswerOf(S, r.path))}
           ELSE {[queried |-> queried, paths |-> c.paths] : c \in EngineCollect(r.e)} :
           r \in EngineNext(e)}

\* C32: with the patterns added and the answers of the device fixed, the
\* order in which the children of a node are visited changes neither the
\* set of prefixes queried nor the list Collect returns.
C32_MapOrderIsNotObservable ==
    (ret.op = "Add" /\ OnlyAdds(hist) /\ orderly)
        => \A S \in SUBSET (1..MaxIndex) :
              Cardinality(RunsFrom(Engine, {}, S)) = 1

\* the integers written as the first segment behind the prefix in an
\* identifier of names that begins with the prefix
FirstIndices(prefix, names) ==
    LET stem == TrimSuffixDot(prefix)
    IN  {n \in (-1)..MaxIndex :
            \E q \in Range(names) :
                /\ Len(q) > Len(stem)
                /\ SubSeq(q, 1, Len(stem)) = stem
                /\ q[Len(stem) + 1] = Itoa(n)}

\* C33: the indices an accepted Register stores for the outstanding prefix
\* are exactly the integers that stand as the first segment behind the
\* prefix in an identifier that begins with it, each once and in ascending
\* order; identifiers that do not begin with the prefix count for nothing
\* and a descendant counts by its first segment only.
C33_ExtractionIsExact ==
    [][(ret'.op = "Register" /\ ret'.err = "nil")
          => LET got == cache'[lastDiscoveryPath]
             IN  /\ Range(got) = FirstIndices(lastDiscoveryPath, ret'.arg)
                 /\ \A i, j \in 1..Len(got) : i < j => got[i] < got[j]]_vars

\* an answer with a foreign name, a descendant and a repeated instance has
\* been registered
C33_Witness ==
    /\ ret.op = "Register" /\ ret.err = "nil"
    /\ ret.arg = NoisyList(<<"A">>)
    /\ cache[<<"A", "">>] = <<2>>

\* the runs of a caller that goes on from the engine e by the protocol: it
\* answers the prefix that is outstanding, if there is one, and then
\* alternates Next and Register up to Collect
RunsOn(e, S) ==
    IF e.last = EmptyStr THEN RunsFrom(e, {}, S)
    ELSE UNION {RunsFrom(g.e, {}, S) :
                   g \in EngineRegister(e, AnswerOf(S, e.last))}

\* the list without the repetitions of a pattern
RECURSIVE Once(_)
Once(list) ==
    IF list = <<>> THEN <<>>
    ELSE IF Last(list) \in Range(SubSeq(list, 1, Len(list) - 1))
    THEN Once(SubSeq(list, 1, Len(list) - 1))
    ELSE Append(Once(SubSeq(list, 1, Len(list) - 1)), Last(list))

\* C34: Add is idempotent on patterns.  An accepted Add of patterns that
\* were all added before changes neither the prefixes Next is going to
\* return nor the list Collect is going to return, whatever the device
\* answers, and a pattern named twice in one Add counts as named once.
C34_AddIsIdempotent ==
    [][(ret'.op = "Add" /\ ret'.err = "nil")
          => /\ Range(ret'.arg) \subseteq added
                  => \A S \in SUBSET (1..MaxIndex) :
                        RunsOn(Engine', S) = RunsOn(Engine, S)
             /\ \E r \in EngineAdd(Engine, Once(ret'.arg)) :
                   /\ r.err = "nil"
                   /\ \A S \in SUBSET (1..MaxIndex) :
                         RunsOn(r.e, S) = RunsOn(Engine', S)]_vars

\* C35: the discovery loop terminates.  A caller that alternates Next and
\* Register reaches Next = ("", false), whatever the device answers, an
\* empty answer included; no prefix is returned twice, and every prefix
\* returned is the prefix of a wildcard reached through the registered
\* indices, so the prefixes returned are at most as many as those.
C35_DiscoveryLoopTerminates ==
    /\ <>Completed
    /\ [](asked \subseteq Reached(added, cache))
    /\ [][(ret'.op = "Next" /\ ret'.hasMore) => ret'.path \notin asked]_vars

\* the loop has ended after an empty answer cut off a branch
C35_Witness ==
    /\ Completed
    /\ Cardinality(asked) >= 3
    /\ \E d \in DOMAIN cache : cache[d] = <<>>

\* the lists that name each pattern of the set once
ListsOf(ps) ==
    {l \in [1..Cardinality(ps) -> ps] : \A i, j \in 1..Cardinality(ps) :
                                             l[i] = l[j] => i = j}

\* C36: before the first Next the order of the Adds does not matter.  The
\* engine that has taken its patterns in some accepted Adds holds the same
\* set of pending prefixes, and collects the same with the same answers, as
\* a fresh engine given the patterns in one Add, in any order.
C36_AddOrderDoesNotMatter ==
    (ret.op = "Add" /\ OnlyAdds(hist) /\ orderly)
        => \A l \in ListsOf(added) : \A r \in EngineAdd(FreshEngine, l) :
              /\ r.err = "nil"
              /\ Range(r.e.pending) = Range(pendingDiscoveries)
              /\ \A S \in SUBSET (1..MaxIndex) :
                    RunsFrom(r.e, {}, S) = RunsFrom(Engine, {}, S)

C36_Witness ==
    /\ ret.op = "Add" /\ OnlyAdds(hist) /\ orderly
    /\ Len(hist) = 2
    /\ Cardinality(added) = 3
    /\ Cardinality(Range(pendingDiscoveries)) = 2

\* the loop of a caller of the single-pattern expander: each path it is
\* given is registered, without its trailing dot, with the answer of the
\* device, and the expanded paths are read when no path is left
RECURSIVE V1RunFrom(_, _, _)
V1RunFrom(e, queried, S) ==
    LET r == WxNextDiscoveryPath(e)
        stem == TrimSuffixDot(r.path)
    IN  IF r.ok
        THEN V1RunFrom(WxRegisterParameterNames(r.e, stem, IdList(stem, S)).e,
                       queried \cup {r.path}, S)
        ELSE [queried |-> queried, paths |-> Range(WxExpandedPaths(r.e).paths)]

\* the runs of the tree engine on the one pattern
TreeRuns(pattern, S) ==
    UNION {RunsFrom(a.e, {}, S) : a \in EngineAdd(FreshEngine, <<pattern>>)}

Agree(pattern, single) ==
    \A S \in SUBSET (1..MaxIndex) :
        \A run \in TreeRuns(pattern, S) :
            /\ run.queried = V1RunFrom(single, {}, S).queried
            /\ Range(run.paths) = V1RunFrom(single, {}, S).paths

\* C37: for one pattern and the same answers the single-pattern expander
\* and the tree engine ask the same prefixes and give the same expanded
\* paths, whatever the places of the wildcards.
C37_SingleAndTreeAgree ==
    wret.op = "New" => Agree(wildcardExpander.originalPath, wildcardExpander)

====
